---- MODULE Spec2Model ----
(***************************************************************************)
(* A state-machine model of src/src/App.jsx: the React component App, its  *)
(* nine useState cells, the fetchData sync, the effect that polls it, the  *)
(* handleIngest submission and the showToast notification slot.            *)
(*                                                                         *)
(* Strings are sequences of characters (or of text chunks for fixed        *)
(* messages): "" is << >>, so JavaScript truthiness of a string is s # <<>>*)
(* and trim() is computed on the characters.  null is the empty option {}, *)
(* a present value v is {v}.  Time is kept in the pending timers: each     *)
(* holds the milliseconds left before its callback runs.                   *)
(***************************************************************************)
EXTENDS Integers, Sequences, FiniteSets

VARIABLES
    namespaces,         \* useState([])                      line 7
    recentDocs,         \* useState([])                      line 8
    stats,              \* useState({total_documents: 0,..}) line 9
    selectedNamespace,  \* useState('')                      line 10
    filterNamespace,    \* useState(null)                    line 11
    text,               \* useState('')                      line 12
    newNamespace,       \* useState('')                      line 13
    loading,            \* useState(false)                   line 14
    toast,              \* useState(null)                    line 15
    toastTimers,        \* pending setTimeout callbacks of showToast, ms left
    interval,           \* the interval timers that are set, oldest first
    syncs,              \* fetchData calls awaiting their three responses
    ingests,            \* handleIngest calls awaiting the POST /ingest response
    mounted             \* FALSE once the component is unmounted

vars == <<namespaces, recentDocs, stats, selectedNamespace, filterNamespace,
          text, newNamespace, loading, toast, toastTimers, interval, syncs,
          ingests, mounted>>

(***************************************************************************)
(* Bounds of the model.                                                    *)
(***************************************************************************)
MaxSyncs == 2
MaxIngests == 1
MaxToastTimers == 2

(***************************************************************************)
(* Program constants.                                                      *)
(***************************************************************************)
ToastDelay == 4000
PollInterval == 10000
RecentLimit == 10

\* The grain of time: half a toast delay, which also divides the poll interval.
TimeStep == ToastDelay \div 2

(***************************************************************************)
(* Values.                                                                 *)
(***************************************************************************)
Null == {}
Some(v) == {v}
TheValue(opt) == CHOOSE v \in opt : TRUE

EmptyStr == << >>
Truthy(s) == s # EmptyStr

Space == " "

RECURSIVE TrimStart(_)
TrimStart(s) ==
    IF s # << >> /\ Head(s) = Space THEN TrimStart(Tail(s)) ELSE s

RECURSIVE TrimEnd(_)
TrimEnd(s) ==
    IF s # << >> /\ s[Len(s)] = Space THEN TrimEnd(SubSeq(s, 1, Len(s) - 1)) ELSE s

\* String.prototype.trim
Trim(s) == TrimEnd(TrimStart(s))

NameA == <<"A">>
NameB == <<"B">>

Namespace(n, c) == [name |-> n, count |-> c]

\* The lists GET /namespaces may answer with, in backend order.
NamespaceLists ==
    { << >>,
      << Namespace(NameA, 1) >>,
      << Namespace(NameB, 2), Namespace(NameA, 1) >> }

Document(n) == [namespace |-> n, doc_type |-> "text"]

\* The lists GET /recent may answer a query with.
DocumentLists(query) ==
    IF query.namespace = Null
    THEN { << >>, << Document(NameB), Document(NameA) >> }
    ELSE { << >>, << Document(TheValue(query.namespace)) >> }

\* What the user may type into the textarea and the new-namespace input.
TextInputs == { EmptyStr, <<" ">>, <<" ", "h", " ", "i", " ">> }
NewNamespaceInputs == { EmptyStr, <<" ">>, <<" ", "C", " ">> }

(***************************************************************************)
(* JSON bodies and fetch outcomes.                                         *)
(***************************************************************************)
JsonBody(kind, nss, docs, st, det) ==
    [json |-> kind, namespaces |-> nss, documents |-> docs, stats |-> st,
     detail |-> det]

\* A body that is not JSON: res.json() rejects.
InvalidBody == JsonBody("invalid", Null, Null, Null, Null)
\* The JSON text null.
NullBody == JsonBody("null", Null, Null, Null, Null)
\* {}
EmptyObject == JsonBody("object", Null, Null, Null, Null)
\* { detail: d }
DetailBody(d) == JsonBody("object", Null, Null, Null, Some(d))
NamespacesBody(l) == JsonBody("object", Some(l), Null, Null, Null)
DocumentsBody(l) == JsonBody("object", Null, Some(l), Null, Null)
StatsBody(t, v) ==
    JsonBody("object", Null, Null, Some([total_documents |-> t, vectorized |-> v]), Null)

Rejected == [settled |-> "rejected", ok |-> FALSE, body |-> InvalidBody]
Response(isOk, b) == [settled |-> "fulfilled", ok |-> isOk, body |-> b]

ServerError == <<"Internal Server Error">>

NamespacesOutcomes ==
    {Rejected, Response(FALSE, InvalidBody), Response(FALSE, DetailBody(ServerError)),
     Response(TRUE, NullBody)}
        \cup { Response(TRUE, NamespacesBody(l)) : l \in NamespaceLists }

StatsOutcomes ==
    {Rejected, Response(FALSE, InvalidBody), Response(FALSE, DetailBody(ServerError)),
     Response(TRUE, StatsBody(1, 1)), Response(TRUE, StatsBody(2, 1))}

RecentOutcomes(query) ==
    {Rejected, Response(FALSE, InvalidBody), Response(FALSE, DetailBody(ServerError)),
     Response(TRUE, NullBody)}
        \cup { Response(TRUE, DocumentsBody(l)) : l \in DocumentLists(query) }

TooLong == <<"too long">>

IngestOutcomes ==
    {Rejected,
     Response(TRUE, EmptyObject), Response(TRUE, InvalidBody),
     Response(FALSE, DetailBody(TooLong)), Response(FALSE, DetailBody(EmptyStr)),
     Response(FALSE, EmptyObject), Response(FALSE, InvalidBody),
     Response(FALSE, NullBody)}

(***************************************************************************)
(* showToast (lines 17-20).                                                *)
(***************************************************************************)
NoToast == [message |-> << >>, type |-> "none"]
Toast(m, t) == [message |-> m, type |-> t]

RequiredMessage == <<"Namespace and text are required">>
IngestedMessage(ns) ==
    <<"Ingested into \"">> \o ns \o <<"\" - now queryable by the AI agent">>
FailedMessage == <<"Ingestion failed">>
NetworkMessage == <<"Network error - is the backend running?">>

\* setTimeout(() => setToast(null), 4000): one more timer; none is cleared.
ScheduleDismiss(timers) == Append(timers, ToastDelay)

\* A slip: a notification that is visible is not replaced.
SetToastKeepsVisible(t) ==
    IF mounted /\ (toast = NoToast \/ t = NoToast) THEN t ELSE toast

\* setToast on an unmounted component does nothing.
SetToast(t) == IF mounted THEN t ELSE toast

ShowToast(m, t) ==
    /\ toast' = SetToast(Toast(m, t))
    /\ toastTimers' = ScheduleDismiss(toastTimers)

(***************************************************************************)
(* fetchData (lines 22-43) and the effect that runs it (lines 45-49).      *)
(***************************************************************************)
\* `/recent?limit=10${filterNamespace ? `&namespace=${filterNamespace}` : ''}`
RecentQuery(filter) ==
    [limit |-> RecentLimit,
     namespace |-> IF filter # Null /\ Truthy(TheValue(filter)) THEN filter ELSE Null]

\* A call of the fetchData closed over (filter, sel): its three requests leave.
FetchData(filter, sel) ==
    [filter |-> filter, sel |-> sel, recent |-> RecentQuery(filter)]

\* setInterval(fetchData, 10000): the timer keeps the fetchData it was given.
SetInterval(filter, sel) == [every |-> PollInterval, filter |-> filter, sel |-> sel]

\* A slip: the effect returns no cleanup.
ClearIntervalOmitted(timers) == timers

\* return () => clearInterval(interval): the timer the effect set, the newest,
\* is cleared.
ClearInterval(timers) == SubSeq(timers, 1, Len(timers) - 1)

\* A slip: the catch gives up polling.
CatchClearsInterval(timers) == << >>

\* catch (e) { console.error('Fetch error:', e) }: the timers stay set.
Catch(timers) == timers

\* The effect body after a render that changed fetchData: the cleanup clears
\* the old interval, fetchData() is called, a new interval is set.
RunEffect(running, filter, sel) ==
    /\ syncs' = Append(running, FetchData(filter, sel))
    /\ interval' = Append(ClearInterval(interval), SetInterval(filter, sel))

\* Promise.all of the three fetches, then the three json() calls.
AllFulfilled(nsRes, statsRes, recentRes) ==
    /\ nsRes.settled = "fulfilled"
    /\ statsRes.settled = "fulfilled"
    /\ recentRes.settled = "fulfilled"

AllParsed(nsRes, statsRes, recentRes) ==
    /\ nsRes.body.json # "invalid"
    /\ statsRes.body.json # "invalid"
    /\ recentRes.body.json # "invalid"

\* A slip: an empty answer keeps the list the state has.
NamespacesKeptOnEmpty(nsData) ==
    IF nsData.namespaces # Null /\ TheValue(nsData.namespaces) # << >>
    THEN TheValue(nsData.namespaces) ELSE namespaces

\* nsData.namespaces || []
NamespacesOr(nsData) ==
    IF nsData.namespaces # Null /\ TheValue(nsData.namespaces) # << >>
    THEN TheValue(nsData.namespaces) ELSE << >>

\* recentData.documents || []
DocumentsOr(recentData) ==
    IF recentData.documents # Null /\ TheValue(recentData.documents) # << >>
    THEN TheValue(recentData.documents) ELSE << >>

\* !selectedNamespace && nsData.namespaces?.length > 0, with the
\* selectedNamespace the fetchData closure was created with.
ShouldAutoSelect(sel, nsData) ==
    /\ ~Truthy(sel)
    /\ nsData.namespaces # Null
    /\ Len(TheValue(nsData.namespaces)) > 0

Remove(seq, i) == SubSeq(seq, 1, i - 1) \o SubSeq(seq, i + 1, Len(seq))

\* The try block throws before any setter is called: a fetch rejected, a
\* body did not parse, or nsData is null (reading nsData.namespaces throws).
ThrowsEarly(nsRes, statsRes, recentRes) ==
    \/ ~AllFulfilled(nsRes, statsRes, recentRes)
    \/ ~AllParsed(nsRes, statsRes, recentRes)
    \/ nsRes.body.json = "null"

\* recentData is null: setNamespaces and setStats were called, then reading
\* recentData.documents throws.
ThrowsLate(nsRes, statsRes, recentRes) ==
    /\ ~ThrowsEarly(nsRes, statsRes, recentRes)
    /\ recentRes.body.json = "null"

\* The state a completing fetchData call i leaves, given its three outcomes.
\* Lines 33-39 up to the throw if any, the catch of line 40, and the effect
\* when the selection changed.
SyncOutcome(i, nsRes, statsRes, recentRes) ==
    LET early == ThrowsEarly(nsRes, statsRes, recentRes)
        late == ThrowsLate(nsRes, statsRes, recentRes)
    IN  /\ namespaces' =
              IF mounted /\ ~early THEN NamespacesOr(nsRes.body) ELSE namespaces
        /\ stats' = IF mounted /\ ~early THEN statsRes.body ELSE stats
        /\ recentDocs' =
              IF mounted /\ ~early /\ ~late THEN DocumentsOr(recentRes.body)
              ELSE recentDocs
        /\ selectedNamespace' =
              IF mounted /\ ~early /\ ~late /\ ShouldAutoSelect(syncs[i].sel, nsRes.body)
              THEN TheValue(nsRes.body.namespaces)[1].name
              ELSE selectedNamespace
        /\ IF selectedNamespace' # selectedNamespace
           THEN RunEffect(Remove(syncs, i), filterNamespace, selectedNamespace')
           ELSE /\ syncs' = Remove(syncs, i)
                /\ interval' = IF early \/ late THEN Catch(interval) ELSE interval
        /\ UNCHANGED <<filterNamespace, text, newNamespace, loading, toast,
                       toastTimers, ingests, mounted>>

\* A completing fetchData call i, its outcomes drawn from the given sets.
\* Every early throw leaves the same state, so one outcome stands for them all.
SyncCompleteFrom(i, nsOutcomes, statsOutcomes, recentOutcomes) ==
    /\ i \in 1..Len(syncs)
    /\ \/ /\ ~(\A nsRes \in nsOutcomes, statsRes \in statsOutcomes,
                  recentRes \in recentOutcomes :
                  ~ThrowsEarly(nsRes, statsRes, recentRes))
          /\ SyncOutcome(i, Rejected, Rejected, Rejected)
       \/ \E nsRes \in nsOutcomes, statsRes \in statsOutcomes,
             recentRes \in recentOutcomes :
             /\ ~ThrowsEarly(nsRes, statsRes, recentRes)
             /\ SyncOutcome(i, nsRes, statsRes, recentRes)

SyncComplete(i) ==
    /\ i \in 1..Len(syncs)
    /\ SyncCompleteFrom(i, NamespacesOutcomes, StatsOutcomes,
                        RecentOutcomes(syncs[i].recent))

\* The same under a backend whose data does not change: a read fails or
\* answers the one snapshot.
SteadyNamespaces == << Namespace(NameB, 2), Namespace(NameA, 1) >>
SteadyDocuments(query) ==
    IF query.namespace = Null
    THEN << Document(NameB), Document(NameA) >>
    ELSE << Document(TheValue(query.namespace)) >>

SteadyNamespacesAnswer == Response(TRUE, NamespacesBody(SteadyNamespaces))
SteadyStatsAnswer == Response(TRUE, StatsBody(2, 1))
SteadyRecentAnswer(query) == Response(TRUE, DocumentsBody(SteadyDocuments(query)))

SteadySyncComplete(i) ==
    /\ i \in 1..Len(syncs)
    /\ SyncCompleteFrom(i,
          {Rejected, SteadyNamespacesAnswer},
          {Rejected, SteadyStatsAnswer},
          {Rejected, SteadyRecentAnswer(syncs[i].recent)})

\* The same with a GET /stats that may also be answered 500.
FlakySyncComplete(i) ==
    /\ i \in 1..Len(syncs)
    /\ SyncCompleteFrom(i,
          {Rejected, SteadyNamespacesAnswer},
          {Rejected, Response(FALSE, DetailBody(ServerError)), SteadyStatsAnswer},
          {Rejected, SteadyRecentAnswer(syncs[i].recent)})

\* The answers of a request that succeeded: 2xx with a JSON object.
Succeeded(outcomes) ==
    { res \in outcomes : res.settled = "fulfilled" /\ res.ok /\ res.body.json = "object" }

SucceededNamespaces == Succeeded(NamespacesOutcomes)
SucceededStats == Succeeded(StatsOutcomes)

\* The same under a backend whose data changes and whose requests either get
\* no response or succeed.
SoundSyncComplete(i) ==
    /\ i \in 1..Len(syncs)
    /\ SyncCompleteFrom(i,
          {Rejected} \cup SucceededNamespaces,
          {Rejected} \cup SucceededStats,
          {Rejected} \cup Succeeded(RecentOutcomes(syncs[i].recent)))

\* A timer that is set fires: it calls the fetchData it was given.  The period
\* is not measured against the toast timers: a tick may come at any moment
\* while a timer is set.
IntervalTick ==
    /\ Len(syncs) < MaxSyncs
    /\ \E k \in 1..Len(interval) :
          syncs' = Append(syncs, FetchData(interval[k].filter, interval[k].sel))
    /\ interval' = interval
    /\ UNCHANGED <<namespaces, recentDocs, stats, selectedNamespace, filterNamespace,
                   text, newNamespace, loading, toast, toastTimers, ingests, mounted>>

\* The cleanup of the effect at unmount: clearInterval(interval).
Teardown ==
    /\ mounted
    /\ mounted' = FALSE
    /\ interval' = ClearInterval(interval)
    /\ UNCHANGED <<namespaces, recentDocs, stats, selectedNamespace, filterNamespace,
                   text, newNamespace, loading, toast, toastTimers, syncs, ingests>>

(***************************************************************************)
(* The controls (lines 137-140, 152-157, 162-167, 190-206).                *)
(***************************************************************************)
NamespaceNames == { namespaces[k].name : k \in 1..Len(namespaces) }

\* The select: the placeholder option "" and one option per namespace.
SelectNamespace(v) ==
    /\ mounted
    /\ v \in {EmptyStr} \cup NamespaceNames
    /\ v # selectedNamespace
    /\ Len(syncs) < MaxSyncs
    /\ selectedNamespace' = v
    /\ RunEffect(syncs, filterNamespace, v)
    /\ UNCHANGED <<namespaces, recentDocs, stats, filterNamespace, text,
                   newNamespace, loading, toast, toastTimers, ingests, mounted>>

\* The "All" pill sets null; a namespace pill toggles its name.
PillTargets ==
    {Null} \cup { IF filterNamespace = Some(n) THEN Null ELSE Some(n) : n \in NamespaceNames }

SetFilterNamespace(f) ==
    /\ mounted
    /\ f \in PillTargets
    /\ f # filterNamespace
    /\ Len(syncs) < MaxSyncs
    /\ filterNamespace' = f
    /\ RunEffect(syncs, f, selectedNamespace)
    /\ UNCHANGED <<namespaces, recentDocs, stats, selectedNamespace, text,
                   newNamespace, loading, toast, toastTimers, ingests, mounted>>

SetText(t) ==
    /\ mounted
    /\ t \in TextInputs
    /\ text' = t
    /\ UNCHANGED <<namespaces, recentDocs, stats, selectedNamespace, filterNamespace,
                   newNamespace, loading, toast, toastTimers, interval, syncs,
                   ingests, mounted>>

SetNewNamespace(n) ==
    /\ mounted
    /\ n \in NewNamespaceInputs
    /\ newNamespace' = n
    /\ UNCHANGED <<namespaces, recentDocs, stats, selectedNamespace, filterNamespace,
                   text, loading, toast, toastTimers, interval, syncs,
                   ingests, mounted>>

(***************************************************************************)
(* handleIngest (lines 51-81).                                             *)
(***************************************************************************)
\* A slip: the select wins over the new-namespace field.
ResolveSelectedFirst(newNs, sel) ==
    IF Truthy(sel) THEN sel ELSE Trim(newNs)

\* const ns = newNamespace.trim() || selectedNamespace
ResolveNamespace(newNs, sel) ==
    IF Truthy(Trim(newNs)) THEN Trim(newNs) ELSE sel

\* A slip: && for ||.
InvalidBothEmpty(ns, txt) == ~Truthy(ns) /\ ~Truthy(Trim(txt))

\* !ns || !text.trim()
Invalid(ns, txt) == ~Truthy(ns) \/ ~Truthy(Trim(txt))

\* JSON.stringify({ namespace: ns, text: text.trim() })
IngestBody(ns, txt) == [namespace |-> ns, text |-> Trim(txt)]

\* Lines 54-57: the early return.
HandleIngestInvalid ==
    /\ mounted
    /\ Invalid(ResolveNamespace(newNamespace, selectedNamespace), text)
    /\ Len(toastTimers) < MaxToastTimers
    /\ ShowToast(RequiredMessage, "error")
    /\ UNCHANGED <<namespaces, recentDocs, stats, selectedNamespace, filterNamespace,
                   text, newNamespace, loading, interval, syncs, ingests, mounted>>

\* Lines 59-65: the request leaves; the call keeps the ns it resolved and the
\* fetchData of its render.
SendIngest ==
    /\ mounted
    /\ ~Invalid(ResolveNamespace(newNamespace, selectedNamespace), text)
    /\ loading' = TRUE
    /\ ingests' = Append(ingests,
          [ns |-> ResolveNamespace(newNamespace, selectedNamespace),
           request |-> IngestBody(ResolveNamespace(newNamespace, selectedNamespace), text),
           filter |-> filterNamespace,
           sel |-> selectedNamespace])
    /\ UNCHANGED <<namespaces, recentDocs, stats, selectedNamespace, filterNamespace,
                   text, newNamespace, toast, toastTimers, interval, syncs, mounted>>

\* handleIngest called whatever loading is, as a caller past the button may.
HandleIngestSend ==
    /\ Len(ingests) < MaxIngests
    /\ SendIngest

\* A slip: the button does not look at loading.
ButtonIgnoresLoading ==
    \/ ~Truthy(selectedNamespace) /\ ~Truthy(Trim(newNamespace))
    \/ ~Truthy(Trim(text))

\* disabled={loading || (!selectedNamespace && !newNamespace.trim()) || !text.trim()}
ButtonDisabled ==
    \/ loading
    \/ ~Truthy(selectedNamespace) /\ ~Truthy(Trim(newNamespace))
    \/ ~Truthy(Trim(text))

\* The form is submitted through its button: handleIngest runs only while
\* the button is enabled.
ClickSubmit ==
    /\ ~ButtonDisabled
    /\ IF Invalid(ResolveNamespace(newNamespace, selectedNamespace), text)
       THEN HandleIngestInvalid
       ELSE SendIngest

\* fetch rejected, res.json() rejected, or data is null on the else branch
\* (data.detail throws): the catch of line 76.
IngestThrows(res) ==
    \/ res.settled = "rejected"
    \/ res.body.json = "invalid"
    \/ ~res.ok /\ res.body.json = "null"

\* data.detail || 'Ingestion failed'
DetailOr(data) ==
    IF data.detail # Null /\ Truthy(TheValue(data.detail))
    THEN TheValue(data.detail) ELSE FailedMessage

\* A slip: no finally block.
FinallyOmitted == loading

\* finally { setLoading(false) }
Finally == IF mounted THEN FALSE ELSE loading

\* A slip: the draft is cleared whatever came of the request.
IngestCaughtClears(i, res) ==
    /\ IngestThrows(res)
    /\ ShowToast(NetworkMessage, "error")
    /\ text' = IF mounted THEN EmptyStr ELSE text
    /\ newNamespace' = IF mounted THEN EmptyStr ELSE newNamespace
    /\ loading' = Finally
    /\ ingests' = Remove(ingests, i)
    /\ UNCHANGED <<namespaces, recentDocs, stats, selectedNamespace, filterNamespace,
                   interval, syncs, mounted>>

\* Lines 76-80.
IngestCaught(i, res) ==
    /\ IngestThrows(res)
    /\ ShowToast(NetworkMessage, "error")
    /\ loading' = Finally
    /\ ingests' = Remove(ingests, i)
    /\ UNCHANGED <<namespaces, recentDocs, stats, selectedNamespace, filterNamespace,
                   text, newNamespace, interval, syncs, mounted>>

\* Lines 68-72 and 78-80.
IngestSucceeded(i, res) ==
    /\ ~IngestThrows(res)
    /\ res.ok
    /\ Len(syncs) < MaxSyncs
    /\ ShowToast(IngestedMessage(ingests[i].ns), "success")
    /\ text' = IF mounted THEN EmptyStr ELSE text
    /\ newNamespace' = IF mounted THEN EmptyStr ELSE newNamespace
    /\ syncs' = Append(syncs, FetchData(ingests[i].filter, ingests[i].sel))
    /\ loading' = Finally
    /\ ingests' = Remove(ingests, i)
    /\ UNCHANGED <<namespaces, recentDocs, stats, selectedNamespace, filterNamespace,
                   interval, mounted>>

\* A slip: fetchData() is called after the if, on the else branch too.
IngestFailedRefetch(i, res) ==
    /\ ~IngestThrows(res)
    /\ ~res.ok
    /\ Len(syncs) < MaxSyncs
    /\ ShowToast(DetailOr(res.body), "error")
    /\ syncs' = Append(syncs, FetchData(ingests[i].filter, ingests[i].sel))
    /\ loading' = Finally
    /\ ingests' = Remove(ingests, i)
    /\ UNCHANGED <<namespaces, recentDocs, stats, selectedNamespace, filterNamespace,
                   text, newNamespace, interval, mounted>>

\* Lines 73-75 and 78-80.
IngestFailed(i, res) ==
    /\ ~IngestThrows(res)
    /\ ~res.ok
    /\ ShowToast(DetailOr(res.body), "error")
    /\ loading' = Finally
    /\ ingests' = Remove(ingests, i)
    /\ UNCHANGED <<namespaces, recentDocs, stats, selectedNamespace, filterNamespace,
                   text, newNamespace, interval, syncs, mounted>>

\* The state a settling handleIngest call i leaves, given its outcome.
IngestOutcome(i, res) ==
    \/ IngestCaught(i, res)
    \/ IngestSucceeded(i, res)
    \/ IngestFailed(i, res)

IngestSettle(i) ==
    /\ i \in 1..Len(ingests)
    /\ Len(toastTimers) < MaxToastTimers
    /\ \E res \in IngestOutcomes : IngestOutcome(i, res)

(***************************************************************************)
(* Timers.                                                                 *)
(***************************************************************************)
\* The oldest pending dismiss timer is due: setToast(null).
ToastTimeout ==
    /\ toastTimers # << >>
    /\ Head(toastTimers) <= 0
    /\ toast' = SetToast(NoToast)
    /\ toastTimers' = Tail(toastTimers)
    /\ UNCHANGED <<namespaces, recentDocs, stats, selectedNamespace, filterNamespace,
                   text, newNamespace, loading, interval, syncs, ingests, mounted>>

NoTimerDue == \A k \in 1..Len(toastTimers) : toastTimers[k] > 0

\* TimeStep milliseconds pass; a due timer runs before more time passes.
TimePasses ==
    /\ NoTimerDue
    /\ toastTimers # << >>
    /\ toastTimers' = [k \in 1..Len(toastTimers) |-> toastTimers[k] - TimeStep]
    /\ UNCHANGED <<namespaces, recentDocs, stats, selectedNamespace, filterNamespace,
                   text, newNamespace, loading, toast, interval, syncs, ingests,
                   mounted>>

(***************************************************************************)
(* The specification.                                                      *)
(***************************************************************************)
\* The state after the first render and its effect: the startup fetchData is
\* in flight and the interval is set.
Init ==
    /\ namespaces = << >>
    /\ recentDocs = << >>
    /\ stats = StatsBody(0, 0)
    /\ selectedNamespace = EmptyStr
    /\ filterNamespace = Null
    /\ text = EmptyStr
    /\ newNamespace = EmptyStr
    /\ loading = FALSE
    /\ toast = NoToast
    /\ toastTimers = << >>
    /\ interval = << SetInterval(Null, EmptyStr) >>
    /\ syncs = << FetchData(Null, EmptyStr) >>
    /\ ingests = << >>
    /\ mounted = TRUE

Next ==
    \/ \E i \in 1..MaxSyncs : SyncComplete(i)
    \/ IntervalTick
    \/ Teardown
    \/ \E v \in {EmptyStr, NameA, NameB} : SelectNamespace(v)
    \/ \E f \in {Null, Some(NameA), Some(NameB)} : SetFilterNamespace(f)
    \/ \E t \in TextInputs : SetText(t)
    \/ \E n \in NewNamespaceInputs : SetNewNamespace(n)
    \/ HandleIngestInvalid
    \/ HandleIngestSend
    \/ \E i \in 1..MaxIngests : IngestSettle(i)
    \/ ToastTimeout
    \/ TimePasses

Spec == Init /\ [][Next]_vars

\* The sync engine and the controls that restart it, without the form.
NextSync ==
    \/ \E i \in 1..MaxSyncs : SyncComplete(i)
    \/ IntervalTick
    \/ Teardown
    \/ \E v \in {EmptyStr, NameA, NameB} : SelectNamespace(v)
    \/ \E f \in {Null, Some(NameA), Some(NameB)} : SetFilterNamespace(f)

SpecSync == Init /\ [][NextSync]_vars

\* The same in front of a backend that answers well or not at all.
NextOverlap ==
    \/ \E i \in 1..MaxSyncs : SoundSyncComplete(i)
    \/ IntervalTick
    \/ Teardown
    \/ \E v \in {EmptyStr, NameA, NameB} : SelectNamespace(v)
    \/ \E f \in {Null, Some(NameB)} : SetFilterNamespace(f)

SpecOverlap == Init /\ [][NextOverlap]_vars

\* The form, its submission and the notifications, in front of a backend
\* whose data does not change.
NextIngest ==
    \/ \E i \in 1..MaxSyncs : SteadySyncComplete(i)
    \/ IntervalTick
    \/ Teardown
    \/ \E t \in TextInputs : SetText(t)
    \/ \E n \in NewNamespaceInputs : SetNewNamespace(n)
    \/ HandleIngestInvalid
    \/ HandleIngestSend
    \/ \E i \in 1..MaxIngests : IngestSettle(i)
    \/ ToastTimeout
    \/ TimePasses

SpecIngest == Init /\ [][NextIngest]_vars

\* Everything that starts a sync: the timer, the filter pills and a
\* submission of one valid text, in front of the same backend.
NextSchedule ==
    \/ \E i \in 1..MaxSyncs : SteadySyncComplete(i)
    \/ IntervalTick
    \/ Teardown
    \/ \E f \in {Null, Some(NameB)} : SetFilterNamespace(f)
    \/ \E t \in {<<" ", "h", " ", "i", " ">>} : SetText(t)
    \/ HandleIngestSend
    \/ \E i \in 1..MaxIngests : IngestSettle(i)
    \/ ToastTimeout
    \/ TimePasses

SpecSchedule == Init /\ [][NextSchedule]_vars

\* The form used through its controls only.
NextButton ==
    \/ \E i \in 1..MaxSyncs : SteadySyncComplete(i)
    \/ IntervalTick
    \/ Teardown
    \/ \E t \in TextInputs : SetText(t)
    \/ \E n \in NewNamespaceInputs : SetNewNamespace(n)
    \/ ClickSubmit
    \/ \E i \in 1..MaxIngests : IngestSettle(i)
    \/ ToastTimeout
    \/ TimePasses

SpecButton == Init /\ [][NextButton]_vars

\* Polling against a backend that fails now and then.  The interval timer
\* fires again and again while it is set, and every request settles.
NextRetry ==
    \/ \E i \in 1..MaxSyncs : FlakySyncComplete(i)
    \/ IntervalTick
    \/ Teardown
    \/ \E v \in {EmptyStr, NameA} : SelectNamespace(v)
    \/ \E f \in {Null, Some(NameB)} : SetFilterNamespace(f)

SpecRetry ==
    /\ Init
    /\ [][NextRetry]_vars
    /\ SF_vars(IntervalTick)
    /\ \A i \in 1..MaxSyncs : WF_vars(FlakySyncComplete(i))

(***************************************************************************)
(* The claims.                                                             *)
(***************************************************************************)
\* A read request failed: no response, a non-2xx response, or a body that is
\* not JSON.
RequestFailed(res) ==
    \/ res.settled = "rejected"
    \/ ~res.ok
    \/ res.body.json = "invalid"

\* C1: a sync in which any one of the three read requests fails leaves
\* namespaces, stats and recentDocs all exactly as they were.
C1_SyncAllOrNothing ==
    [][\A i \in 1..Len(syncs) :
         \A nsRes \in NamespacesOutcomes, statsRes \in StatsOutcomes,
            recentRes \in RecentOutcomes(syncs[i].recent) :
            ( /\ mounted
              /\ RequestFailed(nsRes) \/ RequestFailed(statsRes) \/ RequestFailed(recentRes)
              /\ SyncOutcome(i, nsRes, statsRes, recentRes) )
            => UNCHANGED <<namespaces, stats, recentDocs>>]_vars

\* C2: once selectedNamespace is non-empty, no sync completion changes it.
C2_SelectionNeverOverwritten ==
    [][( /\ Truthy(selectedNamespace)
         /\ \E i \in 1..Len(syncs) : SyncComplete(i) )
       => selectedNamespace' = selectedNamespace]_vars

\* C3: while the dismiss timer of the latest push still has time left, the
\* pushed notification is visible: no older timer dismisses it before its
\* own 4000 ms are over.
C3_FreshWindow ==
    ( /\ mounted
      /\ toastTimers # << >>
      /\ toastTimers[Len(toastTimers)] > 0 )
    => toast # NoToast

\* C4: when the ingestion request of a submission settles, by a 2xx response,
\* a non-2xx response, no response at all or a body that cannot be read,
\* loading is false again; with no request in flight loading is false.
C4_LoadingReleased ==
    /\ [](mounted /\ ingests = << >> => ~loading)
    /\ [][(mounted /\ Len(ingests') < Len(ingests))
          => /\ ~loading'
             /\ \E i \in 1..Len(ingests) : \E res \in IngestOutcomes :
                   IngestOutcome(i, res)]_vars

\* A request settled through the catch and loading is false.
C4_Witness ==
    /\ mounted
    /\ ingests = << >>
    /\ ~loading
    /\ toast = Toast(NetworkMessage, "error")

\* The resolved namespace is empty or the trimmed text is empty.
DraftInvalid ==
    \/ Trim(newNamespace) = << >> /\ selectedNamespace = << >>
    \/ Trim(text) = << >>

\* C5: a submission of an invalid draft issues no request, raises the error
\* notification in the same step and leaves loading as it was.
C5_ValidationBlocks ==
    [][(DraftInvalid /\ (HandleIngestInvalid \/ HandleIngestSend))
       => /\ ingests' = ingests
          /\ loading' = loading
          /\ toast' = Toast(RequiredMessage, "error")
          /\ Len(toastTimers') = Len(toastTimers) + 1]_vars

\* A draft with a namespace selected and a blank text was refused.
C5_Witness ==
    /\ selectedNamespace # << >>
    /\ text = <<" ">>
    /\ toast = Toast(RequiredMessage, "error")
    /\ ingests = << >>
    /\ ~loading

\* C6: a submission whose request receives a 2xx response raises the success
\* notification naming its namespace, clears text and newNamespace and starts
\* exactly one sync.
C6_SuccessEffects ==
    [][\A i \in 1..Len(ingests) : \A res \in IngestOutcomes :
          (mounted /\ res.settled = "fulfilled" /\ res.ok /\ IngestOutcome(i, res))
          => /\ toast' = Toast(IngestedMessage(ingests[i].ns), "success")
             /\ text' = << >>
             /\ newNamespace' = << >>
             /\ Len(syncs') = Len(syncs) + 1]_vars

\* C7: a submission whose request receives a non-2xx response raises an error
\* notification with the server's detail when the body carries a non-empty
\* one and with the generic "Ingestion failed" in every other case.
C7_FailureMessage ==
    [][\A i \in 1..Len(ingests) : \A res \in IngestOutcomes :
          (mounted /\ res.settled = "fulfilled" /\ ~res.ok /\ IngestOutcome(i, res))
          => toast' = Toast(IF res.body.detail # Null /\ TheValue(res.body.detail) # << >>
                            THEN TheValue(res.body.detail) ELSE FailedMessage,
                            "error")]_vars

\* One showToast call: one more dismiss timer and a notification in the slot.
OnePush ==
    /\ Len(toastTimers') = Len(toastTimers) + 1
    /\ mounted => toast' # NoToast

\* C8: every submission attempt raises exactly one notification (at the
\* refusal, or when its request settles and none when it is sent) and starts
\* at most one sync, and that only after a 2xx response.
C8_OneNotification ==
    [][/\ HandleIngestInvalid => (OnePush /\ syncs' = syncs)
       /\ HandleIngestSend => (toast' = toast /\ toastTimers' = toastTimers /\ syncs' = syncs)
       /\ Len(ingests') < Len(ingests)
          => /\ OnePush
             /\ \/ syncs' = syncs
                \/ /\ Len(syncs') = Len(syncs) + 1
                   /\ SubSeq(syncs', 1, Len(syncs)) = syncs
                   /\ \A i \in 1..Len(ingests) : \A res \in IngestOutcomes :
                         IngestOutcome(i, res) => (res.settled = "fulfilled" /\ res.ok)]_vars

\* A 2xx response settled a submission: its notification shows, one timer is
\* pending and its sync is in flight.
C8_Witness ==
    /\ mounted
    /\ toast = Toast(IngestedMessage(NameB), "success")
    /\ Len(toastTimers) = 1
    /\ Len(syncs) = 1
    /\ ingests = << >>

\* C9: a sync is in flight and the interval is set at startup; the interval
\* stays set while mounted and each tick starts a sync; a change of
\* filterNamespace starts a sync for the new filter; a 2xx response to an
\* ingestion starts a sync.
C9_SyncSchedule ==
    /\ syncs = << FetchData(filterNamespace, selectedNamespace) >>
    /\ [](mounted => interval = << SetInterval(filterNamespace, selectedNamespace) >>)
    /\ [][/\ IntervalTick
             => syncs' = Append(syncs, FetchData(filterNamespace, selectedNamespace))
          /\ filterNamespace' # filterNamespace
             => syncs' = Append(syncs, FetchData(filterNamespace', selectedNamespace))
          /\ \A i \in 1..Len(ingests) : \A res \in IngestOutcomes :
                (res.settled = "fulfilled" /\ res.ok /\ IngestOutcome(i, res))
                => Len(syncs') = Len(syncs) + 1]_vars

\* t is s without its leading and trailing spaces.
IsTrimOf(t, s) ==
    /\ \E a \in 0..Len(s), b \in 0..Len(s) :
          /\ a + b <= Len(s)
          /\ \A k \in 1..a : s[k] = Space
          /\ \A k \in (Len(s) - b + 1)..Len(s) : s[k] = Space
          /\ t = SubSeq(s, a + 1, Len(s) - b)
    /\ t # << >> => (t[1] # Space /\ t[Len(t)] # Space)

\* C10: the request of a valid submission carries the trimmed newNamespace
\* when that is non-empty and selectedNamespace otherwise, and the trimmed
\* text.
C10_RequestBody ==
    [][HandleIngestSend
       => LET request == ingests'[Len(ingests')].request
          IN  /\ IsTrimOf(request.text, text)
              /\ IF IsTrimOf(<< >>, newNamespace)
                 THEN request.namespace = selectedNamespace
                 ELSE IsTrimOf(request.namespace, newNamespace)]_vars

\* The new-namespace field won over the selected namespace, and a blank one
\* fell back to it.
C10_Witness ==
    /\ selectedNamespace = NameB
    /\ newNamespace = <<" ", "C", " ">>
    /\ ingests = << [ns |-> <<"C">>,
                     request |-> [namespace |-> <<"C">>, text |-> <<"h", " ", "i">>],
                     filter |-> Null, sel |-> NameB] >>

\* C11: at most one interval timer is set in every state, however often the
\* timer was re-created by a change of filterNamespace or selectedNamespace;
\* teardown clears it, and after teardown no timer fires and no sync starts.
C11_IntervalCleared ==
    /\ [](Len(interval) <= 1)
    /\ [](~mounted => interval = << >>)
    /\ [][~mounted => (~IntervalTick /\ Len(syncs') <= Len(syncs))]_vars

\* Torn down after the timer was re-created for a selection and for a filter:
\* no timer is left.
C11_Witness ==
    /\ ~mounted
    /\ interval = << >>
    /\ selectedNamespace = NameA
    /\ filterNamespace = Some(NameB)

\* C12: syncs overlap, and every sync that succeeds while mounted (a step in
\* which no sync is added to those in flight), whatever other sync is in
\* flight or completed before it, leaves namespaces, stats and recentDocs
\* equal to its own three results: after two overlapping successes the three
\* fields are those of the one that completed last.
C12_LastWriteWins ==
    [][(mounted /\ Len(syncs') <= Len(syncs))
       => \A i \in 1..Len(syncs) :
            \A nsRes \in SucceededNamespaces, statsRes \in SucceededStats,
               recentRes \in Succeeded(RecentOutcomes(syncs[i].recent)) :
               SyncOutcome(i, nsRes, statsRes, recentRes)
               => /\ Some(namespaces') = nsRes.body.namespaces
                  /\ stats' = statsRes.body
                  /\ Some(recentDocs') = recentRes.body.documents]_vars

\* Two syncs overlapped: the one started after the auto-selection succeeded
\* while one started before it is still in flight.
C12_Witness ==
    /\ mounted
    /\ Len(syncs) = 1
    /\ syncs[1].sel = EmptyStr
    /\ selectedNamespace = NameB
    /\ namespaces = << Namespace(NameA, 1) >>
    /\ stats = StatsBody(1, 1)
    /\ recentDocs = << >>

\* C13: a completing sync leaves toast, its timers, loading, text,
\* newNamespace and filterNamespace as they were, and one in which a read
\* request failed leaves namespaces, stats, recentDocs and selectedNamespace
\* as they were too.
C13_SyncFrame ==
    [][\A i \in 1..Len(syncs) :
         \A nsRes \in NamespacesOutcomes, statsRes \in StatsOutcomes,
            recentRes \in RecentOutcomes(syncs[i].recent) :
            SyncOutcome(i, nsRes, statsRes, recentRes)
            => /\ UNCHANGED <<toast, toastTimers, loading, text, newNamespace,
                              filterNamespace>>
               /\ (RequestFailed(nsRes) \/ RequestFailed(statsRes) \/ RequestFailed(recentRes))
                  => UNCHANGED <<namespaces, stats, recentDocs, selectedNamespace>>]_vars

\* C14: a sync that failed leaves the interval timer set; while mounted the
\* timer starts a sync again and again, whatever came of the syncs before and
\* with no user action needed; and a sync whose three requests succeed puts
\* its results in namespaces, stats and recentDocs.
C14_SelfHealing ==
    /\ [](mounted => Len(interval) = 1)
    /\ <>(~mounted) \/ []<><<IntervalTick>>_vars
    /\ [][(mounted /\ Len(syncs') <= Len(syncs))
          => \A i \in 1..Len(syncs) :
                SyncOutcome(i, SteadyNamespacesAnswer, SteadyStatsAnswer,
                            SteadyRecentAnswer(syncs[i].recent))
                => /\ namespaces' = SteadyNamespaces
                   /\ stats' = StatsBody(2, 1)
                   /\ recentDocs' = SteadyDocuments(syncs[i].recent)]_vars

\* A sync whose GET /stats failed has completed, the timer is still set and
\* two later syncs are in flight.
C14_Witness ==
    /\ mounted
    /\ stats = DetailBody(ServerError)
    /\ Len(interval) = 1
    /\ syncs = << FetchData(Null, NameB), FetchData(Null, NameB) >>

\* The selection a successful sync is to leave, from the selection before it
\* and the list it fetched.
DerivedSelection(prior, list) ==
    IF prior = << >> /\ list # << >> THEN list[1].name ELSE prior

\* C15: a sync that succeeds while mounted leaves selectedNamespace equal to
\* the name of the first fetched namespace when the selection before it was
\* empty and the list is not, and equal to the selection before it in every
\* other case.
C15_SelectionDerivation ==
    [][(mounted /\ Len(syncs') <= Len(syncs))
       => \A i \in 1..Len(syncs) :
            \A nsRes \in SucceededNamespaces, statsRes \in SucceededStats,
               recentRes \in Succeeded(RecentOutcomes(syncs[i].recent)) :
               SyncOutcome(i, nsRes, statsRes, recentRes)
               => selectedNamespace' =
                     DerivedSelection(selectedNamespace,
                                      TheValue(nsRes.body.namespaces))]_vars

\* The outcomes of an ingestion request that did not succeed: no response or
\* a non-2xx response.
Unsuccessful == { res \in IngestOutcomes : res.settled = "rejected" \/ ~res.ok }

\* C16: a submission that is refused, or whose request gets no response or a
\* non-2xx response, leaves text, newNamespace, selectedNamespace,
\* filterNamespace, namespaces, stats and recentDocs as they were and starts
\* no sync, at the refusal, when the request is sent and when it settles: a
\* settling step that changes any of them is not that of such a request.
C16_FailureFrame ==
    [][/\ ( /\ Len(toastTimers') > Len(toastTimers) \/ Len(ingests') > Len(ingests)
            /\ HandleIngestInvalid \/ HandleIngestSend )
          => UNCHANGED <<text, newNamespace, selectedNamespace, filterNamespace,
                         namespaces, stats, recentDocs, syncs, interval>>
       /\ ( /\ Len(ingests') < Len(ingests)
            /\ ~UNCHANGED <<text, newNamespace, selectedNamespace, filterNamespace,
                            namespaces, stats, recentDocs, syncs, interval>> )
          => \A i \in 1..Len(ingests) : \A res \in Unsuccessful :
                ~IngestOutcome(i, res)]_vars

\* A request was answered non-2xx with a detail: the draft is still there.
C16_Witness ==
    /\ mounted
    /\ toast = Toast(TooLong, "error")
    /\ ingests = << >>
    /\ text = <<" ", "h", " ", "i", " ">>
    /\ newNamespace = <<" ", "C", " ">>

\* Every message handleIngest pushes under the inputs of the model.
PushedMessages ==
    {RequiredMessage, NetworkMessage, FailedMessage, TooLong}
        \cup { IngestedMessage(n) : n \in {NameA, NameB, <<"C">>} }

\* C17: toast is one cell; while mounted, the step of a push leaves in it
\* exactly the message and type pushed, whatever it held, with a dismiss
\* timer of 4000 ms; and a notification that is visible has the timer of
\* the latest push pending with at most 4000 ms left, so it is gone 4000 ms
\* after the latest push at the latest.
C17_SingleSlot ==
    /\ [](mounted /\ toast # NoToast
            => /\ toastTimers # << >>
               /\ toastTimers[Len(toastTimers)] \in 0..ToastDelay)
    /\ [][(mounted /\ Len(toastTimers') > Len(toastTimers))
          => /\ toastTimers'[Len(toastTimers')] = ToastDelay
             /\ toast' # NoToast
             /\ \A m \in PushedMessages, t \in {"success", "error"} :
                   ShowToast(m, t) => toast' = Toast(m, t)]_vars

\* A second notification replaced the first 2000 ms after it.
C17_Witness ==
    /\ mounted
    /\ toast = Toast(NetworkMessage, "error")
    /\ toastTimers = << TimeStep, ToastDelay >>

\* C18: with handleIngest run only through the button, which is disabled
\* while loading is true, at most one ingestion request is in flight, and
\* while mounted loading is true exactly when one is.
C18_ButtonGate ==
    /\ Len(ingests) <= 1
    /\ mounted => (loading <=> ingests # << >>)

\* A request is in flight, loading is true and the draft is still valid: only
\* loading keeps the button disabled.
C18_Witness ==
    /\ mounted
    /\ loading
    /\ Len(ingests) = 1
    /\ Truthy(selectedNamespace)
    /\ Truthy(Trim(text))
    /\ ButtonDisabled

\* C19: the sync in flight at startup, and every sync a step starts (by a
\* tick, a change of the filter or the selection, or a 2xx response to an
\* ingestion), asks GET /recent for the namespace filterNamespace holds as
\* the step ends, and for no namespace when that is null.
C19_RecentScope ==
    /\ \A k \in 1..Len(syncs) : syncs[k].recent = RecentQuery(filterNamespace)
    /\ [][(Len(syncs') > Len(syncs) \/ selectedNamespace' # selectedNamespace)
          => syncs'[Len(syncs')].recent = RecentQuery(filterNamespace')]_vars

\* C20: a sync that succeeds while mounted, and so writes recentDocs, asked
\* GET /recent for the namespace filterNamespace holds when it is applied.
C20_RecentMatchesFilter ==
    [][(mounted /\ Len(syncs') <= Len(syncs))
       => \A i \in 1..Len(syncs) :
            \A nsRes \in SucceededNamespaces, statsRes \in SucceededStats,
               recentRes \in Succeeded(RecentOutcomes(syncs[i].recent)) :
               SyncOutcome(i, nsRes, statsRes, recentRes)
               => syncs[i].recent = RecentQuery(filterNamespace)]_vars

====
